---- MODULE Spec2Model ----
(***************************************************************************)
(* Model of check_unique_replicas.py: the RateLimiter, the uniqueness      *)
(* predicate is_unique_at_rse, and UniqueReplicaChecker.run with its       *)
(* thread pool of process_dataset workers, the statistics and the          *)
(* unique-file registry.                                                   *)
(*                                                                         *)
(* Five specifications share the variables:                                *)
(*   SpecLimiter  callers looping on RateLimiter.acquire under a clock     *)
(*   SpecUnique   is_unique_at_rse applied to every small replica record   *)
(*   Spec         one run(): enumerate, fan out, collect, save, with       *)
(*                concurrent tasks over datasets of a few files            *)
(*   SpecBatches  one run() over one dataset of two or three batches       *)
(*   SpecReport   the .csv file save_results writes for a small registry   *)
(*                whose scopes and names are texts                         *)
(* Time is counted in integer ticks; the statements of acquire() between   *)
(* taking the lock and sleeping or returning take no time, and a grant is  *)
(* dated by the timestamp acquire() appends.  In Spec and SpecBatches the  *)
(* acquire() before each catalog call is not timed: it returns, and the    *)
(* call's answer is what the action chooses.  A step that touches only a   *)
(* task's locals is taken together with the next step that touches shared  *)
(* state (the files of a batch up to the next registry insert).            *)
(***************************************************************************)
EXTENDS Integers, Sequences, FiniteSets, TLC

\* ------------------------------------------------------------------ bounds
\* Largest max_calls and time_window (ticks) a limiter is constructed with.
MaxCalls == 2
MaxWindow == 2
\* The clock stops at MaxTime; at most MaxAcquires acquire() calls are started.
MaxTime == 4
MaxAcquires == 4
\* Threads calling acquire() in SpecLimiter.
NumCallers == 2
\* Datasets the endpoint holds at most, and the largest pool.
MaxDatasets == 2
MaxWorkers == 2
\* A dataset lists 0..MaxShort files, or one file more than a batch.
MaxShort == 1
\* A scope or a file name has at most MaxText characters, and a registry handed
\* to save_results at most MaxEntries entries.
MaxText == 2
MaxEntries == 2

VARIABLES
    \* RateLimiter fields (lines 56-60) and the callers' positions
    max_calls, time_window, call_times, lock,
    clock, lpc, wake, calls, grants,
    \* acquire(): the local sleep_time, and the clock when the call was made
    sleep_time, arrived,
    \* is_unique_at_rse: its argument, self.rse and its return value
    rse, replica_info, is_unique,
    \* the lines save_results wrote to the .csv file
    csv_file,
    \* what the catalog holds for the endpoint: the number of its datasets and
    \* the number of files of each
    catalog,
    \* UniqueReplicaChecker fields (lines 116, 131-143)
    max_workers, stats, stats_lock, unique_files, unique_files_lock,
    \* run(): the datasets listed, the futures as_completed has yielded, and
    \* each thread's position (thread 0 is the main thread, thread d > 0 the
    \* process_dataset task of dataset d) and its update_stats call
    datasets, collected, pc, us,
    \* process_dataset locals
    files, i, replicas, j, files_checked, unique_files_found,
    \* history: the deltas written per counter, what each task wrote, the
    \* catalog's answers to each task, the reports written
    applied, contrib, listing, batches, inserted, reports

limVars == <<max_calls, time_window, call_times, lock, clock, lpc, wake, calls, grants,
             sleep_time, arrived>>
uniqVars == <<replica_info, is_unique>>
sharedVars == <<stats, stats_lock, unique_files, unique_files_lock>>
localVars == <<files, i, replicas, j, files_checked, unique_files_found>>
histVars == <<applied, contrib, listing, batches, inserted, reports>>
runVars == <<catalog, max_workers, sharedVars, datasets, collected, pc, us, localVars, histVars>>
vars == <<limVars, rse, uniqVars, csv_file, runVars>>

\* an unlocked Lock(): no holder
NoThread == -1

\* ------------------------------------------------------------ RateLimiter
Callers == 1..NumCallers

\* RateLimiter(max_calls, time_window) returns a limiter: the only statement of
\* __init__ that can fail is Semaphore(max_calls), which raises ValueError for
\* a negative value; time_window is stored as given
Constructs(n, tw) == n >= 0

\* [t for t in self.call_times if now - t < self.time_window]
RECURSIVE Purge(_, _, _)
Purge(ct, now, tw) ==
    IF ct = <<>> THEN <<>>
    ELSE IF now - Head(ct) < tw
         THEN <<Head(ct)>> \o Purge(Tail(ct), now, tw)
         ELSE Purge(Tail(ct), now, tw)

AtLimitOneEarly(ct, n) == Len(ct) + 1 >= n
AtLimitOffByOne(ct, n) == Len(ct) > n
\* len(self.call_times) >= self.max_calls
AtLimit(ct, n) == Len(ct) >= n

SleepTimeSignSlip(ct, now, tw) == tw + (now - ct[1])
\* self.time_window - (now - self.call_times[0])
SleepTime(ct, now, tw) == tw - (now - ct[1])

\* the record of a call that returned: the timestamp it appended, whether and
\* for how long it slept, when it was made and whether it waited for the lock
Grant(t, now, slept, called) ==
    [at |-> now, slept |-> slept, arrived |-> called,
     asked |-> IF slept THEN sleep_time[t] ELSE 0,
     waited |-> lpc[t] = "waiting"]

\* acquire() is called while another thread holds self.lock: the caller blocks
\* on `with self.lock`
AcquireWait(t) ==
    /\ lpc[t] = "idle"
    /\ calls < MaxAcquires
    /\ lock # NoThread
    /\ calls' = calls + 1
    /\ arrived' = [arrived EXCEPT ![t] = clock]
    /\ lpc' = [lpc EXCEPT ![t] = "waiting"]
    /\ UNCHANGED <<max_calls, time_window, call_times, lock, clock, wake, grants, sleep_time,
                   rse, uniqVars, csv_file, runVars>>

\* acquire(), from taking self.lock (at the call, or after waiting for it) to
\* either time.sleep (lock still held) or the append and return.  An empty
\* call_times at the limit (max_calls <= 0) makes call_times[0] raise
\* IndexError; the with-block releases the lock.
AcquireEnter(t) ==
    /\ \/ lpc[t] = "idle" /\ calls < MaxAcquires
       \/ lpc[t] = "waiting"
    /\ lock = NoThread
    /\ calls' = IF lpc[t] = "idle" THEN calls + 1 ELSE calls
    /\ LET now == clock
           called == IF lpc[t] = "idle" THEN clock ELSE arrived[t]
           kept == Purge(call_times, now, time_window)
           sleeps == /\ AtLimit(kept, max_calls)
                     /\ kept # <<>>
                     /\ SleepTime(kept, now, time_window) > 0
       IN /\ arrived' = [arrived EXCEPT ![t] = IF sleeps THEN called ELSE 0]
          /\ IF AtLimit(kept, max_calls)
             THEN IF kept = <<>>
                  THEN /\ call_times' = kept
                       /\ lpc' = [lpc EXCEPT ![t] = "raised"]
                       /\ UNCHANGED <<lock, wake, grants, sleep_time>>
                  ELSE IF SleepTime(kept, now, time_window) > 0
                       THEN /\ call_times' = kept
                            /\ lock' = t
                            /\ sleep_time' = [sleep_time EXCEPT ![t] =
                                                 SleepTime(kept, now, time_window)]
                            /\ wake' = [wake EXCEPT ![t] =
                                           now + SleepTime(kept, now, time_window)]
                            /\ lpc' = [lpc EXCEPT ![t] = "sleeping"]
                            /\ UNCHANGED grants
                       ELSE /\ call_times' = Append(kept, now)
                            /\ grants' = Append(grants, Grant(t, now, FALSE, called))
                            /\ lpc' = [lpc EXCEPT ![t] = "idle"]
                            /\ UNCHANGED <<lock, wake, sleep_time>>
             ELSE /\ call_times' = Append(kept, now)
                  /\ grants' = Append(grants, Grant(t, now, FALSE, called))
                  /\ lpc' = [lpc EXCEPT ![t] = "idle"]
                  /\ UNCHANGED <<lock, wake, sleep_time>>
    /\ UNCHANGED <<max_calls, time_window, clock, rse, uniqVars, csv_file, runVars>>

\* acquire() after time.sleep returns: read the clock again, purge, append,
\* leave the with-block and return (the locals are gone).  sleep() returns no
\* earlier than asked.
AcquireWake(t) ==
    /\ lpc[t] = "sleeping"
    /\ clock >= wake[t]
    /\ LET now == clock
       IN /\ call_times' = Append(Purge(call_times, now, time_window), now)
          /\ grants' = Append(grants, Grant(t, now, TRUE, arrived[t]))
    /\ lock' = NoThread
    /\ lpc' = [lpc EXCEPT ![t] = "idle"]
    /\ wake' = [wake EXCEPT ![t] = 0]
    /\ sleep_time' = [sleep_time EXCEPT ![t] = 0]
    /\ arrived' = [arrived EXCEPT ![t] = 0]
    /\ UNCHANGED <<max_calls, time_window, clock, calls, rse, uniqVars, csv_file, runVars>>

\* time.time() moves on
Tick ==
    /\ clock < MaxTime
    /\ clock' = clock + 1
    /\ UNCHANGED <<max_calls, time_window, call_times, lock, lpc, wake, calls, grants,
                   sleep_time, arrived, rse, uniqVars, csv_file, runVars>>

\* ------------------------------------------------------- is_unique_at_rse
Endpoints == {"X", "Y", "Z"}
States == {"AVAILABLE", "UNAVAILABLE", "COPYING"}
\* the order in which states.items() yields the endpoints
ItemOrder == <<"X", "Y", "Z">>

\* states.get(rse)
StateGet(states, e) == IF e \in DOMAIN states THEN states[e] ELSE "None"

\* the loop of lines 350-353 over states.items()
RECURSIVE AvailableRses(_, _)
AvailableRses(states, order) ==
    IF order = <<>> THEN <<>>
    ELSE LET e == Head(order)
             rest == AvailableRses(states, Tail(order))
         IN IF e \in DOMAIN states /\ states[e] = "AVAILABLE"
            THEN <<e>> \o rest
            ELSE rest

IsUniqueNoPresenceCheck(target, info) ==
    /\ StateGet(info.states, target) = "AVAILABLE"
    /\ Len(AvailableRses(info.states, ItemOrder)) = 1
\* is_unique_at_rse(replica_info) with self.rse = target
is_unique_at_rse(target, info) ==
    IF target \notin info.rses THEN FALSE
    ELSE IF StateGet(info.states, target) # "AVAILABLE" THEN FALSE
    ELSE LET available_rses == AvailableRses(info.states, ItemOrder)
         IN Len(available_rses) = 1 /\ available_rses[1] = target

\* every replica record over the endpoints: 'rses' and 'states' are two maps
ReplicaRecords ==
    { [rses |-> r, states |-> s] :
        r \in SUBSET Endpoints,
        s \in UNION { [D -> States] : D \in SUBSET Endpoints } }

Evaluate ==
    /\ is_unique = "unset"
    /\ is_unique' = IF is_unique_at_rse(rse, replica_info) THEN "true" ELSE "false"
    /\ UNCHANGED <<limVars, rse, replica_info, csv_file, runVars>>

\* -------------------------------------------------- UniqueReplicaChecker
\* thread 0 is the main thread running run(); thread d is the pool thread
\* running process_dataset for dataset d
MainThread == 0
Tasks == 1..MaxDatasets
Threads == {MainThread} \cup Tasks

StatKeys == {"datasets_found", "datasets_processed", "files_checked",
             "unique_files_found", "errors", "skipped"}
ZeroStats == [k \in StatKeys |-> 0]
Scopes == {"s1", "s2"}

\* batch_size = 100
batch_size == 100

\* The catalog.  A file is identified by its name k; its scope is ScopeOf(k).
\* list_files answers with the files 1..n of a dataset, so two datasets share
\* their first files.
ScopeOf(k) == IF k = 2 THEN "s2" ELSE "s1"
Catalogs(dsCounts, fileCounts) ==
    UNION { { [datasets |-> n, files |-> f] : f \in [1..n -> fileCounts] } : n \in dsCounts }
FileList(n) == [k \in 1..n |-> k]
\* the federation: the first file of every batch and file 2 have their only
\* AVAILABLE copy at X
CatalogRecord(k) ==
    IF k % batch_size = 1
      THEN [rses |-> {"X"}, states |-> [e \in {"X"} |-> "AVAILABLE"]]
    ELSE IF k = 2
      THEN [rses |-> {"X", "Y"},
            states |-> [e \in {"X", "Y"} |-> IF e = "X" THEN "AVAILABLE" ELSE "COPYING"]]
    ELSE IF k = 3
      THEN [rses |-> {"X", "Y"},
            states |-> [e \in {"X", "Y"} |-> IF e = "X" THEN "UNAVAILABLE" ELSE "AVAILABLE"]]
    ELSE IF k = 4
      THEN [rses |-> {"Y"}, states |-> [e \in {"Y"} |-> "AVAILABLE"]]
    ELSE [rses |-> {"X", "Y"}, states |-> [e \in {"X", "Y"} |-> "AVAILABLE"]]

\* files[i:i + batch_size], as the set of its 1-based positions
BatchPositions(fs, start) ==
    {k \in 1..Len(fs) : k > start /\ k <= start + batch_size}
BatchFiles(fs, start) == {fs[k] : k \in BatchPositions(fs, start)}
\* replica_dict of lines 311-314 for an answer that leaves out `omitted`
ReplicaDict(dids, omitted) == [f \in dids \ omitted |-> CatalogRecord(f)]

\* ---- update_stats (lines 205-210)
StatsLockIgnored == TRUE
\* with self.stats_lock: the lock can be taken
StatsLockFree == stats_lock = NoThread

\* a call of update_stats(**kw) by thread t, continuing at ret
CallUpdateStats(t, kw, ret) ==
    /\ pc' = [pc EXCEPT ![t] = "update_stats"]
    /\ us' = [us EXCEPT ![t] = [kw |-> kw, tmp |-> 0, ret |-> ret]]

\* take self.stats_lock and read the first counter
UpdateStatsEnter(t) ==
    /\ pc[t] = "update_stats"
    /\ StatsLockFree
    /\ stats_lock' = t
    /\ us' = [us EXCEPT ![t].tmp = stats[us[t].kw[1][1]]]
    /\ pc' = [pc EXCEPT ![t] = "us_locked"]
    /\ UNCHANGED <<limVars, rse, uniqVars, csv_file, catalog, max_workers, stats, unique_files,
                   unique_files_lock, datasets, collected, localVars, histVars>>

\* self.stats[key] += value: write the counter read before, then read the
\* next one or leave the with-block and return
UpdateStatsStep(t) ==
    /\ pc[t] = "us_locked"
    /\ LET key == us[t].kw[1][1]
           value == us[t].kw[1][2]
           rest == Tail(us[t].kw)
           written == [stats EXCEPT ![key] = us[t].tmp + value]
       IN /\ stats' = written
          /\ applied' = [applied EXCEPT ![key] = @ + value]
          /\ contrib' = [contrib EXCEPT ![t][key] = @ + value]
          /\ IF rest # <<>>
             THEN /\ us' = [us EXCEPT ![t].kw = rest, ![t].tmp = written[rest[1][1]]]
                  /\ UNCHANGED <<pc, stats_lock>>
             ELSE /\ us' = [us EXCEPT ![t].kw = rest]
                  /\ stats_lock' = NoThread
                  /\ pc' = [pc EXCEPT ![t] = us[t].ret]
    /\ UNCHANGED <<limVars, rse, uniqVars, csv_file, catalog, max_workers, unique_files, unique_files_lock,
                   datasets, collected, localVars, listing, batches, inserted, reports>>

\* ---- process_dataset (lines 365-428)
RunningPcs == {"list_files", "no_files", "check_replicas", "evaluate", "inserted",
               "finish", "returning", "update_stats", "us_locked"}
Running == {d \in Tasks : pc[d] \in RunningPcs}

PoolUnbounded == TRUE
\* ThreadPoolExecutor(max_workers=self.max_workers): a pool thread is free
PoolHasRoom == Cardinality(Running) < max_workers

\* a pool thread takes the oldest queued work item
StartTask(d) ==
    /\ pc[d] = "pending"
    /\ \A e \in Tasks : e < d => pc[e] # "pending"
    /\ PoolHasRoom
    /\ pc' = [pc EXCEPT ![d] = "list_files"]
    /\ UNCHANGED <<limVars, rse, uniqVars, csv_file, catalog, max_workers, sharedVars, datasets, collected,
                   us, localVars, histVars>>

\* get_files_in_dataset: list_files returns the dataset's files
ListFilesOk(d) ==
    /\ pc[d] = "list_files"
    /\ LET n == catalog.files[d]
       IN /\ files' = [files EXCEPT ![d] = FileList(n)]
          /\ listing' = [listing EXCEPT ![d] = IF n = 0 THEN "empty" ELSE "files"]
          /\ pc' = [pc EXCEPT ![d] = IF n = 0 THEN "no_files" ELSE "check_replicas"]
    /\ i' = [i EXCEPT ![d] = 0]
    /\ files_checked' = [files_checked EXCEPT ![d] = 0]
    /\ unique_files_found' = [unique_files_found EXCEPT ![d] = 0]
    /\ UNCHANGED <<limVars, rse, uniqVars, csv_file, catalog, max_workers, sharedVars, datasets, collected,
                   us, replicas, j, applied, contrib, batches, inserted, reports>>

ListFilesRaisesUncounted(d) ==
    /\ pc[d] = "list_files"
    /\ \E e \in {"not_found", "error"} : listing' = [listing EXCEPT ![d] = e]
    /\ pc' = [pc EXCEPT ![d] = "no_files"]
    /\ UNCHANGED <<limVars, rse, uniqVars, csv_file, catalog, max_workers, sharedVars, datasets,
                   collected, us, localVars, applied, contrib, batches, inserted, reports>>
\* get_files_in_dataset: list_files raises DataIdentifierNotFound ("not_found")
\* or another exception ("error"); each handler counts one error and returns []
ListFilesRaises(d) ==
    /\ pc[d] = "list_files"
    /\ \E e \in {"not_found", "error"} : listing' = [listing EXCEPT ![d] = e]
    /\ CallUpdateStats(d, << <<"errors", 1>> >>, "no_files")
    /\ UNCHANGED <<limVars, rse, uniqVars, csv_file, catalog, max_workers, sharedVars, datasets, collected,
                   localVars, applied, contrib, batches, inserted, reports>>

NoFilesProcessed(d) ==
    /\ pc[d] = "no_files"
    /\ pc' = [pc EXCEPT ![d] = "finish"]
    /\ UNCHANGED <<limVars, rse, uniqVars, csv_file, catalog, max_workers, sharedVars, datasets,
                   collected, us, localVars, histVars>>
\* if not files: update_stats(skipped=1); return 0, 0
NoFiles(d) ==
    /\ pc[d] = "no_files"
    /\ CallUpdateStats(d, << <<"skipped", 1>> >>, "done")
    /\ UNCHANGED <<limVars, rse, uniqVars, csv_file, catalog, max_workers, sharedVars, datasets, collected,
                   localVars, histVars>>

\* check_replica_locations answers for the batch at i, perhaps leaving out
\* its first file
CheckReplicasOk(d) ==
    /\ pc[d] = "check_replicas"
    /\ LET dids == BatchFiles(files[d], i[d])
       IN \E omitted \in {{}, {files[d][i[d] + 1]}} :
            /\ replicas' = [replicas EXCEPT ![d] = ReplicaDict(dids, omitted)]
            /\ batches' = [batches EXCEPT ![d] =
                  Append(@, [ok |-> TRUE, dids |-> dids, omitted |-> omitted,
                             checked |-> 0, unique |-> 0])]
    /\ j' = [j EXCEPT ![d] = i[d] + 1]
    /\ pc' = [pc EXCEPT ![d] = "evaluate"]
    /\ UNCHANGED <<limVars, rse, uniqVars, csv_file, catalog, max_workers, sharedVars, datasets, collected,
                   us, files, i, files_checked, unique_files_found,
                   applied, contrib, listing, inserted, reports>>

CheckReplicasRaisesAborting(d) ==
    /\ pc[d] = "check_replicas"
    /\ LET dids == BatchFiles(files[d], i[d])
       IN /\ batches' = [batches EXCEPT ![d] =
                Append(@, [ok |-> FALSE, dids |-> dids, omitted |-> {},
                           checked |-> 0, unique |-> 0])]
          /\ CallUpdateStats(d, << <<"errors", Cardinality(dids)>> >>, "finish")
    /\ replicas' = [replicas EXCEPT ![d] = <<>>]
    /\ j' = [j EXCEPT ![d] = i[d] + 1]
    /\ UNCHANGED <<limVars, rse, uniqVars, csv_file, catalog, max_workers, sharedVars, datasets,
                   collected, files, i, files_checked, unique_files_found,
                   applied, contrib, listing, inserted, reports>>
\* check_replica_locations: list_replicas raises; errors += len(dids), return {}
CheckReplicasRaises(d) ==
    /\ pc[d] = "check_replicas"
    /\ LET dids == BatchFiles(files[d], i[d])
       IN /\ batches' = [batches EXCEPT ![d] =
                Append(@, [ok |-> FALSE, dids |-> dids, omitted |-> {},
                           checked |-> 0, unique |-> 0])]
          /\ CallUpdateStats(d, << <<"errors", Cardinality(dids)>> >>, "evaluate")
    /\ replicas' = [replicas EXCEPT ![d] = <<>>]
    /\ j' = [j EXCEPT ![d] = i[d] + 1]
    /\ UNCHANGED <<limVars, rse, uniqVars, csv_file, catalog, max_workers, sharedVars, datasets, collected,
                   files, i, files_checked, unique_files_found,
                   applied, contrib, listing, inserted, reports>>

\* the positions from j to the end of the batch whose file has a replica record
Present(d, from, to) ==
    {k \in from..to : files[d][k] \in DOMAIN replicas[d]}
BatchEnd(d) == IF i[d] + batch_size < Len(files[d]) THEN i[d] + batch_size ELSE Len(files[d])
\* the positions from j on whose file is_unique_at_rse accepts
UniqueAhead(d) ==
    {k \in Present(d, j[d], BatchEnd(d)) :
        is_unique_at_rse(rse, replicas[d][files[d][k]])}
Min(S) == CHOOSE x \in S : \A y \in S : x <= y
CheckedCountsMissing(d, from, to) == Cardinality(from..to)
\* files_checked += 1 for each file from..to that the `continue` of line 408
\* does not skip
CheckedAhead(d, from, to) == Cardinality(Present(d, from, to))
BumpLast(log, field, n) == [log EXCEPT ![Len(log)][field] = @ + n]

\* the loop of lines 402-417 up to the next unique file: count the files
\* checked on the way, take unique_files_lock and append the name
Insert(d) ==
    /\ pc[d] = "evaluate"
    /\ UniqueAhead(d) # {}
    /\ unique_files_lock = NoThread
    /\ LET k == Min(UniqueAhead(d))
           f == files[d][k]
           n == CheckedAhead(d, j[d], k)
       IN /\ files_checked' = [files_checked EXCEPT ![d] = @ + n]
          /\ unique_files' = [unique_files EXCEPT ![ScopeOf(f)] = Append(@, f)]
          /\ inserted' = [inserted EXCEPT ![d] = Append(@, f)]
          /\ batches' = [batches EXCEPT ![d] = BumpLast(@, "checked", n)]
          /\ j' = [j EXCEPT ![d] = k]
    /\ unique_files_lock' = d
    /\ pc' = [pc EXCEPT ![d] = "inserted"]
    /\ UNCHANGED <<limVars, rse, uniqVars, csv_file, catalog, max_workers, stats, stats_lock, datasets,
                   collected, us, files, i, replicas, unique_files_found,
                   applied, contrib, listing, reports>>

\* leave the with-block, unique_files_found += 1, flush_logs(); a flush that
\* raises (OSError from a handler's stream) ends the task with an exception
AfterInsert(d) ==
    /\ pc[d] = "inserted"
    /\ unique_files_lock' = NoThread
    /\ unique_files_found' = [unique_files_found EXCEPT ![d] = @ + 1]
    /\ batches' = [batches EXCEPT ![d] = BumpLast(@, "unique", 1)]
    /\ j' = [j EXCEPT ![d] = @ + 1]
    /\ \E flushed \in BOOLEAN :
          pc' = [pc EXCEPT ![d] = IF flushed THEN "evaluate" ELSE "failed"]
    /\ UNCHANGED <<limVars, rse, uniqVars, csv_file, catalog, max_workers, stats, stats_lock, unique_files,
                   datasets, collected, us, files, i, replicas, files_checked,
                   applied, contrib, listing, inserted, reports>>

\* the rest of the batch holds no unique file: count the files checked and go
\* on to the next batch, or to the final update_stats
BatchDone(d) ==
    /\ pc[d] = "evaluate"
    /\ UniqueAhead(d) = {}
    /\ LET n == CheckedAhead(d, j[d], BatchEnd(d))
       IN /\ files_checked' = [files_checked EXCEPT ![d] = @ + n]
          /\ batches' = [batches EXCEPT ![d] = BumpLast(@, "checked", n)]
    /\ i' = [i EXCEPT ![d] = @ + batch_size]
    /\ pc' = [pc EXCEPT ![d] =
                 IF i[d] + batch_size < Len(files[d]) THEN "check_replicas" ELSE "finish"]
    /\ UNCHANGED <<limVars, rse, uniqVars, csv_file, catalog, max_workers, sharedVars, datasets, collected,
                   us, files, replicas, j, unique_files_found,
                   applied, contrib, listing, inserted, reports>>

\* update_stats(datasets_processed=1, files_checked=..., unique_files_found=...)
Finish(d) ==
    /\ pc[d] = "finish"
    /\ CallUpdateStats(d, << <<"datasets_processed", 1>>,
                             <<"files_checked", files_checked[d]>>,
                             <<"unique_files_found", unique_files_found[d]>> >>,
                       "returning")
    /\ UNCHANGED <<limVars, rse, uniqVars, csv_file, catalog, max_workers, sharedVars, datasets, collected,
                   localVars, histVars>>

\* flush_logs() of line 426, then return; a flush that raises ends the task
\* with an exception
Return(d) ==
    /\ pc[d] = "returning"
    /\ \E flushed \in BOOLEAN :
          pc' = [pc EXCEPT ![d] = IF flushed THEN "done" ELSE "failed"]
    /\ UNCHANGED <<limVars, rse, uniqVars, csv_file, catalog, max_workers, sharedVars, datasets, collected,
                   us, localVars, histVars>>

\* ---- save_results (lines 430-464): a call of save_results from the normal
\* path or from the interrupt handler, the snapshot it reads, whether the
\* report was written, and the submitted tasks that had not ended at the time
Report(path, written) ==
    [stats |-> stats, unique_files |-> unique_files, path |-> path, written |-> written,
     busy |-> {d \in 1..datasets : pc[d] \notin {"unsubmitted", "done", "failed"}}]

\* ---- save_results, the .csv file (lines 450-457).  A scope or a name is a
\* text: a sequence of characters.
Chars == {"a", ","}
Texts == UNION { [1..n -> Chars] : n \in 1..MaxText }
\* ord(c)
CharCode(c) == IF c = "," THEN 44 ELSE 97
\* u < v as Python orders two str
RECURSIVE TextLess(_, _)
TextLess(u, v) ==
    IF u = <<>> THEN v # <<>>
    ELSE IF v = <<>> THEN FALSE
    ELSE IF CharCode(Head(u)) # CharCode(Head(v)) THEN CharCode(Head(u)) < CharCode(Head(v))
    ELSE TextLess(Tail(u), Tail(v))
RECURSIVE InsertSorted(_, _)
InsertSorted(x, seq) ==
    IF seq = <<>> THEN <<x>>
    ELSE IF TextLess(Head(seq), x) THEN <<Head(seq)>> \o InsertSorted(x, Tail(seq))
    ELSE <<x>> \o seq
\* sorted(names)
RECURSIVE SortedNames(_)
SortedNames(names) ==
    IF names = <<>> THEN <<>> ELSE InsertSorted(Head(names), SortedNames(Tail(names)))
\* the scopes in the order of sorted(self.unique_files.items())
RECURSIVE SortedScopes(_)
SortedScopes(S) ==
    IF S = {} THEN <<>>
    ELSE LET m == CHOOSE x \in S : \A y \in S \ {x} : TextLess(x, y)
         IN <<m>> \o SortedScopes(S \ {m})
\* "scope,name\n"
CsvHeader == <<"s", "c", "o", "p", "e", ",", "n", "a", "m", "e">>
\* f"{scope},{name}\n"
CsvRow(scope, name) == scope \o <<",">> \o name
RECURSIVE CsvRowsOfScopes(_, _)
CsvRowsOfScopes(reg, scopes) ==
    IF scopes = <<>> THEN <<>>
    ELSE LET names == SortedNames(reg[Head(scopes)])
         IN [n \in DOMAIN names |-> CsvRow(Head(scopes), names[n])]
            \o CsvRowsOfScopes(reg, Tail(scopes))
\* the lines of the .csv file for a registry
CsvLines(reg) == <<CsvHeader>> \o CsvRowsOfScopes(reg, SortedScopes(DOMAIN reg))

\* self.unique_files[scope].append(name) on the defaultdict, for each entry
RECURSIVE RegistryOf(_)
RegistryOf(entries) ==
    IF entries = <<>> THEN <<>>
    ELSE LET before == RegistryOf(SubSeq(entries, 1, Len(entries) - 1))
             scope == entries[Len(entries)][1]
             name == entries[Len(entries)][2]
         IN [s \in DOMAIN before \cup {scope} |->
                IF s = scope
                THEN (IF s \in DOMAIN before THEN Append(before[s], name) ELSE <<name>>)
                ELSE before[s]]
Registries ==
    { RegistryOf(e) : e \in UNION { [1..n -> Texts \X Texts] : n \in 1..MaxEntries } }

\* save_results writes the .csv file from the registry
SaveCsv ==
    /\ csv_file = <<>>
    /\ csv_file' = CsvLines(unique_files)
    /\ UNCHANGED <<limVars, rse, uniqVars, runVars>>

\* ---- run (lines 466-549)
\* the positions of the main thread inside the with-block of the executor
InWithBlock ==
    \/ pc[MainThread] = "as_completed"
    \/ pc[MainThread] \in {"update_stats", "us_locked"} /\ us[MainThread].ret = "as_completed"
Finished(d) == pc[d] \in {"done", "failed"}
Submitted == 1..datasets

\* get_datasets_at_rse: the catalog lists its n datasets; update_stats(datasets_found=n),
\* then run() returns when there are none
GetDatasets ==
    /\ pc[MainThread] = "run"
    /\ LET n == catalog.datasets
       IN /\ datasets' = n
          /\ CallUpdateStats(MainThread, << <<"datasets_found", n>> >>,
                             IF n = 0 THEN "returned" ELSE "executor")
    /\ UNCHANGED <<limVars, rse, uniqVars, csv_file, catalog, max_workers, sharedVars, collected,
                   localVars, histVars>>

\* get_datasets_at_rse raises (RSENotFound, RucioException, ...): logged by
\* run()'s except Exception, sys.exit(1)
GetDatasetsRaises ==
    /\ pc[MainThread] = "run"
    /\ pc' = [pc EXCEPT ![MainThread] = "fatal"]
    /\ UNCHANGED <<limVars, rse, uniqVars, csv_file, catalog, max_workers, sharedVars, datasets, collected,
                   us, localVars, histVars>>

\* ThreadPoolExecutor(max_workers) raises ValueError when max_workers <= 0;
\* otherwise every dataset is submitted
Submit ==
    /\ pc[MainThread] = "executor"
    /\ IF max_workers <= 0
       THEN pc' = [pc EXCEPT ![MainThread] = "fatal"]
       ELSE pc' = [t \in Threads |->
                     IF t = MainThread THEN "as_completed"
                     ELSE IF t \in Submitted THEN "pending" ELSE pc[t]]
    /\ UNCHANGED <<limVars, rse, uniqVars, csv_file, catalog, max_workers, sharedVars, datasets, collected,
                   us, localVars, histVars>>

CollectUncounted(d) ==
    /\ pc[MainThread] = "as_completed"
    /\ d \in Submitted \ collected
    /\ Finished(d)
    /\ collected' = collected \cup {d}
    /\ UNCHANGED <<limVars, rse, uniqVars, csv_file, catalog, max_workers, sharedVars, datasets,
                   pc, us, localVars, histVars>>
\* as_completed yields a finished future; future.result() raises the task's
\* exception, which is counted with update_stats(errors=1)
Collect(d) ==
    /\ pc[MainThread] = "as_completed"
    /\ d \in Submitted \ collected
    /\ Finished(d)
    /\ collected' = collected \cup {d}
    /\ IF pc[d] = "failed"
       THEN CallUpdateStats(MainThread, << <<"errors", 1>> >>, "as_completed")
       ELSE UNCHANGED <<pc, us>>
    /\ UNCHANGED <<limVars, rse, uniqVars, csv_file, catalog, max_workers, sharedVars, datasets,
                   localVars, histVars>>

\* every future was yielded: leave the with-block (the pool is idle), print_stats
\* under stats_lock
LoopDone ==
    /\ pc[MainThread] = "as_completed"
    /\ collected = Submitted
    /\ stats_lock = NoThread
    /\ pc' = [pc EXCEPT ![MainThread] = "save_results"]
    /\ UNCHANGED <<limVars, rse, uniqVars, csv_file, catalog, max_workers, sharedVars, datasets, collected,
                   us, localVars, histVars>>

\* save_results() of line 526 writes the report, or raises and run() exits 1
SaveResults ==
    /\ pc[MainThread] = "save_results"
    /\ \E written \in BOOLEAN :
          /\ reports' = Append(reports, Report("normal", written))
          /\ pc' = [pc EXCEPT ![MainThread] = IF written THEN "summary" ELSE "fatal"]
    /\ UNCHANGED <<limVars, rse, uniqVars, csv_file, catalog, max_workers, sharedVars, datasets, collected,
                   us, localVars, applied, contrib, listing, batches, inserted>>

\* the summary of lines 529-539 under unique_files_lock, then run() returns
Summary ==
    /\ pc[MainThread] = "summary"
    /\ unique_files_lock = NoThread
    /\ pc' = [pc EXCEPT ![MainThread] = "returned"]
    /\ UNCHANGED <<limVars, rse, uniqVars, csv_file, catalog, max_workers, sharedVars, datasets, collected,
                   us, localVars, histVars>>

\* KeyboardInterrupt in the main thread.  Inside the with-block the executor's
\* __exit__ first waits for every task (shutdown(wait=True)); elsewhere in the
\* try, and on a second interrupt during that wait, control goes to the
\* except KeyboardInterrupt handler.  A with-block of update_stats that is
\* left by the exception releases stats_lock.  An interrupt inside the handler
\* is caught by nothing: it leaves run() and ends the process.
Interrupt ==
    /\ pc[MainThread] \in {"run", "update_stats", "us_locked", "executor", "as_completed",
                           "shutdown", "save_results", "summary", "handler", "handler_save"}
    /\ pc' = [pc EXCEPT ![MainThread] =
                 IF pc[MainThread] \in {"handler", "handler_save"} THEN "crashed"
                 ELSE IF InWithBlock THEN "shutdown" ELSE "handler"]
    /\ stats_lock' = IF stats_lock = MainThread THEN NoThread ELSE stats_lock
    /\ UNCHANGED <<limVars, rse, uniqVars, csv_file, catalog, max_workers, stats, unique_files,
                   unique_files_lock, datasets, collected, us, localVars, histVars>>

\* shutdown(wait=True) returns once every submitted task has run
ShutdownDone ==
    /\ pc[MainThread] = "shutdown"
    /\ \A d \in Submitted : Finished(d)
    /\ pc' = [pc EXCEPT ![MainThread] = "handler"]
    /\ UNCHANGED <<limVars, rse, uniqVars, csv_file, catalog, max_workers, sharedVars, datasets, collected,
                   us, localVars, histVars>>

\* except KeyboardInterrupt: logging.warning, flush_logs(); a flush that
\* raises leaves run() with that exception
Handler ==
    /\ pc[MainThread] = "handler"
    /\ \E flushed \in BOOLEAN :
          pc' = [pc EXCEPT ![MainThread] = IF flushed THEN "handler_save" ELSE "crashed"]
    /\ UNCHANGED <<limVars, rse, uniqVars, csv_file, catalog, max_workers, sharedVars, datasets, collected,
                   us, localVars, histVars>>

\* the handler's save_results() and sys.exit(1); save_results re-raises what
\* it fails with
HandlerSave ==
    /\ pc[MainThread] = "handler_save"
    /\ \E written \in BOOLEAN :
          /\ reports' = Append(reports, Report("interrupt", written))
          /\ pc' = [pc EXCEPT ![MainThread] = IF written THEN "exit1" ELSE "crashed"]
    /\ UNCHANGED <<limVars, rse, uniqVars, csv_file, catalog, max_workers, sharedVars, datasets, collected,
                   us, localVars, applied, contrib, listing, batches, inserted>>

\* ------------------------------------------------------------------ specs
RunIdleButRegistry ==
    /\ stats = ZeroStats
    /\ stats_lock = NoThread
    /\ unique_files_lock = NoThread
    /\ datasets = 0
    /\ collected = {}
    /\ pc = [t \in Threads |-> IF t = MainThread THEN "run" ELSE "unsubmitted"]
    /\ us = [t \in Threads |-> [kw |-> <<>>, tmp |-> 0, ret |-> "none"]]
    /\ files = [d \in Tasks |-> <<>>]
    /\ i = [d \in Tasks |-> 0]
    /\ replicas = [d \in Tasks |-> <<>>]
    /\ j = [d \in Tasks |-> 0]
    /\ files_checked = [d \in Tasks |-> 0]
    /\ unique_files_found = [d \in Tasks |-> 0]
    /\ applied = ZeroStats
    /\ contrib = [t \in Threads |-> ZeroStats]
    /\ listing = [d \in Tasks |-> "none"]
    /\ batches = [d \in Tasks |-> <<>>]
    /\ inserted = [d \in Tasks |-> <<>>]
    /\ reports = <<>>
RunIdle ==
    /\ unique_files = [s \in Scopes |-> <<>>]
    /\ RunIdleButRegistry

LimiterIdle ==
    /\ call_times = <<>>
    /\ lock = NoThread
    /\ clock = 0
    /\ lpc = [t \in Callers |-> "idle"]
    /\ wake = [t \in Callers |-> 0]
    /\ sleep_time = [t \in Callers |-> 0]
    /\ arrived = [t \in Callers |-> 0]
    /\ calls = 0
    /\ grants = <<>>

UniqueIdle ==
    /\ replica_info = [rses |-> {}, states |-> <<>>]
    /\ is_unique = "unset"
    /\ csv_file = <<>>

InitLimiter ==
    /\ max_calls \in -1..MaxCalls
    /\ time_window \in -1..MaxWindow
    /\ Constructs(max_calls, time_window)
    /\ LimiterIdle
    /\ rse = "X"
    /\ UniqueIdle
    /\ catalog = [datasets |-> 0, files |-> <<>>]
    /\ max_workers = 1
    /\ RunIdle

NextLimiter ==
    \/ \E t \in Callers : AcquireWait(t)
    \/ \E t \in Callers : AcquireEnter(t)
    \/ \E t \in Callers : AcquireWake(t)
    \/ Tick

SpecLimiter == InitLimiter /\ [][NextLimiter]_vars

InitUnique ==
    /\ max_calls = 1
    /\ time_window = 1
    /\ LimiterIdle
    /\ rse \in Endpoints
    /\ replica_info \in ReplicaRecords
    /\ is_unique = "unset"
    /\ csv_file = <<>>
    /\ catalog = [datasets |-> 0, files |-> <<>>]
    /\ max_workers = 1
    /\ RunIdle

NextUnique == Evaluate

SpecUnique == InitUnique /\ [][NextUnique]_vars

\* one run() of a checker for endpoint X over datasets of at most MaxShort files
Init ==
    /\ max_calls = 1
    /\ time_window = 1
    /\ LimiterIdle
    /\ rse = "X"
    /\ UniqueIdle
    /\ catalog \in Catalogs(0..MaxDatasets, 0..MaxShort)
    /\ max_workers \in 0..MaxWorkers
    /\ RunIdle

Next ==
    \/ GetDatasets
    \/ GetDatasetsRaises
    \/ Submit
    \/ \E d \in Tasks : Collect(d)
    \/ LoopDone
    \/ SaveResults
    \/ Summary
    \/ Interrupt
    \/ ShutdownDone
    \/ Handler
    \/ HandlerSave
    \/ \E t \in Threads : UpdateStatsEnter(t)
    \/ \E t \in Threads : UpdateStatsStep(t)
    \/ \E d \in Tasks : StartTask(d)
    \/ \E d \in Tasks : ListFilesOk(d)
    \/ \E d \in Tasks : ListFilesRaises(d)
    \/ \E d \in Tasks : NoFiles(d)
    \/ \E d \in Tasks : CheckReplicasOk(d)
    \/ \E d \in Tasks : CheckReplicasRaises(d)
    \/ \E d \in Tasks : Insert(d)
    \/ \E d \in Tasks : AfterInsert(d)
    \/ \E d \in Tasks : BatchDone(d)
    \/ \E d \in Tasks : Finish(d)
    \/ \E d \in Tasks : Return(d)

Spec == Init /\ [][Next]_vars

\* one run() over a single dataset of more than one batch
InitBatches ==
    /\ max_calls = 1
    /\ time_window = 1
    /\ LimiterIdle
    /\ rse = "X"
    /\ UniqueIdle
    /\ catalog \in Catalogs({1}, {batch_size + 1, 2 * batch_size + 1})
    /\ max_workers = 1
    /\ RunIdle

SpecBatches == InitBatches /\ [][Next]_vars

\* save_results of a registry of texts
InitReport ==
    /\ max_calls = 1
    /\ time_window = 1
    /\ LimiterIdle
    /\ rse = "X"
    /\ UniqueIdle
    /\ catalog = [datasets |-> 0, files |-> <<>>]
    /\ max_workers = 1
    /\ unique_files \in Registries
    /\ RunIdleButRegistry

NextReport == SaveCsv

SpecReport == InitReport /\ [][NextReport]_vars

\* ----------------------------------------------------------------- claims

\* C1: with max_calls >= 1 and time_window > 0, no window of time_window
\* ticks holds more than max_calls granted acquire() calls.
GrantsIn(a) == {g \in DOMAIN grants : grants[g].at >= a /\ grants[g].at < a + time_window}
C1_RateBound ==
    (max_calls >= 1 /\ time_window > 0) =>
        \A a \in 0..MaxTime : Cardinality(GrantsIn(a)) <= max_calls
\* a caller slept at the limit and was then granted into a full window
C1_Witness ==
    /\ max_calls >= 1 /\ time_window > 0
    /\ max_calls > 1
    /\ \E g \in DOMAIN grants :
          /\ grants[g].slept
          /\ \E a \in 0..MaxTime : g \in GrantsIn(a) /\ Cardinality(GrantsIn(a)) = max_calls

\* C3: is_unique_at_rse returns true exactly when the target is in the
\* record's locations, its state is AVAILABLE and the set of AVAILABLE
\* endpoints is {target}.
AvailableSet(info) == {e \in DOMAIN info.states : info.states[e] = "AVAILABLE"}
C3_UniqueIff ==
    is_unique # "unset" =>
        ( is_unique = "true" <=>
            /\ rse \in replica_info.rses
            /\ StateGet(replica_info.states, rse) = "AVAILABLE"
            /\ AvailableSet(replica_info) = {rse} )
\* evaluated true for a sole AVAILABLE copy among other, non-AVAILABLE replicas
C3_Witness ==
    /\ is_unique = "true"
    /\ Cardinality(DOMAIN replica_info.states) > 1

\* ---- the run's accounting, from each task's own catalog answers
RECURSIVE SumSeq(_)
SumSeq(seq) == IF seq = <<>> THEN 0 ELSE Head(seq) + SumSeq(Tail(seq))
Answered(b) == b.ok
Failed(b) == ~b.ok
Asked(b) == Cardinality(b.dids)
Returned(b) == Cardinality(b.dids \ b.omitted)
UniqueReturned(b) ==
    Cardinality({f \in b.dids \ b.omitted : is_unique_at_rse(rse, CatalogRecord(f))})
ErrorsOf(log) == SumSeq([n \in DOMAIN log |-> IF Failed(log[n]) THEN Asked(log[n]) ELSE 0])
CheckedOf(log) == SumSeq([n \in DOMAIN log |-> IF Answered(log[n]) THEN Returned(log[n]) ELSE 0])
UniqueOf(log) ==
    SumSeq([n \in DOMAIN log |-> IF Answered(log[n]) THEN UniqueReturned(log[n]) ELSE 0])
\* what a task that ran to its return adds to the counters
Expected(d) ==
    [k \in StatKeys |->
        CASE k = "datasets_processed" -> IF listing[d] = "files" THEN 1 ELSE 0
          [] k = "skipped" -> IF listing[d] = "files" THEN 0 ELSE 1
          [] k = "errors" -> (IF listing[d] \in {"not_found", "error"} THEN 1 ELSE 0)
                             + ErrorsOf(batches[d])
          [] k = "files_checked" -> CheckedOf(batches[d])
          [] k = "unique_files_found" -> UniqueOf(batches[d])
          [] OTHER -> 0]
Range(seq) == {seq[n] : n \in DOMAIN seq}
RegistrySize(reg) == Len(reg["s1"]) + Len(reg["s2"])
NumBatches(n) == (n + batch_size - 1) \div batch_size
\* the loop of as_completed ended normally: run() is at or past save_results
FanOutDone == pc[MainThread] \in {"save_results", "summary"}

\* C2: in every reachable state, and in every report written, the counter
\* unique_files_found equals the number of entries of the registry.
C2_CounterMatchesRegistry ==
    /\ stats["unique_files_found"] = RegistrySize(unique_files)
    /\ \A r \in DOMAIN reports :
          reports[r].written =>
             reports[r].stats["unique_files_found"] = RegistrySize(reports[r].unique_files)

\* C4: every counter equals the sum of the deltas update_stats was given for
\* it: no update is lost, whatever the interleaving.
C4_NoLostUpdate == \A k \in StatKeys : stats[k] = applied[k]
\* two threads have both added to one counter
C4_Witness ==
    \E k \in StatKeys : \E t, u \in Threads :
        /\ t # u
        /\ contrib[t][k] > 0 /\ contrib[u][k] > 0
        /\ stats[k] = contrib[t][k] + contrib[u][k]

\* C5: the registry never holds a name twice within a scope.
C5_NoDuplicates ==
    \A s \in Scopes : \A a, b \in DOMAIN unique_files[s] :
        a # b => unique_files[s][a] # unique_files[s][b]

\* C6: the tasks executing process_dataset at the same time never outnumber
\* max_workers.
C6_PoolBound == Cardinality(Running) <= max_workers
\* the pool is full while a submitted dataset still waits
C6_Witness ==
    /\ max_workers >= 1
    /\ Cardinality(Running) = max_workers
    /\ \E d \in Tasks : pc[d] = "pending"

C8_EmptyListing ==
    \A d \in Tasks : listing[d] = "empty" =>
        /\ batches[d] = <<>>
        /\ inserted[d] = <<>>
        /\ \A k \in StatKeys \ {"skipped"} : contrib[d][k] = 0
        /\ pc[d] = "done" => contrib[d]["skipped"] = 1
C8_Witness == \E d \in Tasks : listing[d] = "empty" /\ pc[d] = "done"

\* C9 as stated: a dataset whose listing raises DataIdentifierNotFound adds
\* one to skipped and nothing to errors, files_checked or unique_files_found.
C9_NotFoundNotAnError ==
    \A d \in Tasks : (listing[d] = "not_found" /\ pc[d] = "done") =>
        /\ contrib[d]["skipped"] = 1
        /\ contrib[d]["errors"] = 0
        /\ contrib[d]["files_checked"] = 0
        /\ contrib[d]["unique_files_found"] = 0
\* C9 amended: a dataset whose listing raises DataIdentifierNotFound adds one
\* to skipped and one to errors, and nothing to files_checked,
\* unique_files_found or datasets_processed.
C9_NotFoundSkippedAndError ==
    \A d \in Tasks : (listing[d] = "not_found" /\ pc[d] = "done") =>
        /\ contrib[d]["skipped"] = 1
        /\ contrib[d]["errors"] = 1
        /\ contrib[d]["files_checked"] = 0
        /\ contrib[d]["unique_files_found"] = 0
        /\ contrib[d]["datasets_processed"] = 0
        /\ inserted[d] = <<>>
C9_Witness == \E d \in Tasks : listing[d] = "not_found" /\ pc[d] = "done"

\* C10: a batch whose replica lookup raises adds its number of identifiers to
\* errors, none of its files is checked, counted unique or put in the
\* registry, every other batch of the dataset is still queried and evaluated,
\* and the dataset then adds one to datasets_processed.
C10_BatchFailure ==
    \A d \in Tasks :
        /\ \A b \in DOMAIN batches[d] : Failed(batches[d][b]) =>
              /\ batches[d][b].checked = 0
              /\ batches[d][b].unique = 0
              /\ batches[d][b].dids \cap Range(inserted[d]) = {}
        /\ (pc[d] = "done" /\ listing[d] = "files") =>
              /\ Len(batches[d]) = NumBatches(Len(files[d]))
              /\ \A b \in DOMAIN batches[d] : Answered(batches[d][b]) =>
                    /\ batches[d][b].checked = Returned(batches[d][b])
                    /\ batches[d][b].unique = UniqueReturned(batches[d][b])
              /\ contrib[d]["errors"] = ErrorsOf(batches[d])
              /\ contrib[d]["files_checked"] = CheckedOf(batches[d])
              /\ contrib[d]["unique_files_found"] = UniqueOf(batches[d])
              /\ contrib[d]["datasets_processed"] = 1
\* the first batch failed, the second was answered and held a unique file
C10_Witness ==
    \E d \in Tasks :
        /\ pc[d] = "done"
        /\ Len(batches[d]) >= 2
        /\ Failed(batches[d][1])
        /\ Answered(batches[d][2]) /\ batches[d][2].unique > 0
        /\ contrib[d]["errors"] = batch_size

\* ---- the limiter's delays
\* the grants before grant g whose timestamp is still in the window at g's
GrantedBefore(g) ==
    {h \in DOMAIN grants : h < g /\ grants[g].at - grants[h].at < time_window}
Sleeping == {t \in Callers : lpc[t] = "sleeping"}
ValidLimiter == max_calls >= 1 /\ time_window > 0

\* C11 as stated: a call that finds max_calls grants in the window sleeps for
\* a delay d with 0 <= d < time_window before it is granted.
C11_DelayBelowWindow ==
    ValidLimiter =>
        /\ \A t \in Sleeping : sleep_time[t] >= 0 /\ sleep_time[t] < time_window
        /\ \A g \in DOMAIN grants :
              grants[g].slept => grants[g].asked >= 0 /\ grants[g].asked < time_window
\* C11 amended: a call that finds max_calls grants in the window sleeps for
\* a delay d with 0 <= d <= time_window before it is granted, and a call is
\* granted without sleeping only when the window holds fewer than max_calls.
C11_DelayAtMostWindow ==
    ValidLimiter =>
        /\ \A t \in Sleeping : sleep_time[t] >= 0 /\ sleep_time[t] <= time_window
        /\ \A g \in DOMAIN grants :
              /\ grants[g].slept =>
                    /\ grants[g].asked >= 0 /\ grants[g].asked <= time_window
                    /\ grants[g].at >= grants[g].arrived + grants[g].asked
              /\ ~grants[g].slept => Cardinality(GrantedBefore(g)) < max_calls
\* max_calls + 1 calls made at one instant: the last was granted after a
\* sleep of the whole window
C11_Witness ==
    /\ ValidLimiter
    /\ \E g \in DOMAIN grants :
          /\ g = max_calls + 1
          /\ grants[g].slept /\ grants[g].asked = time_window
          /\ \A h \in 1..g : grants[h].arrived = grants[1].arrived

\* the acquire() calls made in the window of time_window ticks that starts at a
InProgress == {t \in Callers : lpc[t] \in {"waiting", "sleeping"}}
CallsIn(a) ==
    Cardinality({g \in DOMAIN grants :
                    grants[g].arrived >= a /\ grants[g].arrived < a + time_window})
    + Cardinality({t \in InProgress : arrived[t] >= a /\ arrived[t] < a + time_window})
WithinRate == \A a \in 0..MaxTime : CallsIn(a) <= max_calls

\* C12: while the callers make at most max_calls calls in every window of
\* time_window ticks, no call sleeps and none waits for the lock behind a
\* sleeping caller: each is granted at the moment it is made.
C12_NeverBlocks ==
    (ValidLimiter /\ WithinRate) =>
        /\ InProgress = {}
        /\ \A g \in DOMAIN grants :
              /\ ~grants[g].slept /\ ~grants[g].waited
              /\ grants[g].at = grants[g].arrived
\* the callers filled one window and then a later one, within the rate
C12_Witness ==
    /\ ValidLimiter /\ WithinRate
    /\ max_calls > 1
    /\ Len(grants) = 2 * max_calls
    /\ CallsIn(grants[1].arrived) = max_calls
    /\ CallsIn(grants[Len(grants)].arrived) = max_calls

\* C13: the limiter never denies a call: no acquire() ends with an exception.
C13_NeverDenied == \A t \in Callers : lpc[t] # "raised"

\* C14: no acquire() is executed on a limiter with max_calls <= 0 or
\* time_window <= 0, because such a limiter is rejected at construction.
C14_InvalidRejected == calls > 0 => ValidLimiter

\* ---- the run's reports
Written == {r \in DOMAIN reports : reports[r].written}
\* run() was left through the except KeyboardInterrupt handler
ExitedOnInterrupt == pc[MainThread] \in {"exit1", "crashed"}

\* C15: a run that an interrupt ends has called save_results from the
\* interrupt handler, with the statistics and registry of that moment, before
\* the process exits.
C15_InterruptSaves ==
    ExitedOnInterrupt => \E r \in DOMAIN reports : reports[r].path = "interrupt"

\* C16: a run that ends normally or by interrupt has written its report
\* exactly once.
C16_WrittenOnce ==
    pc[MainThread] \in {"returned", "exit1"} => Cardinality(Written) = 1

\* C18: whenever save_results takes its snapshot, no submitted task is
\* pending or running.
C18_SnapshotAfterWorkers == \A r \in DOMAIN reports : reports[r].busy = {}

\* ---- reading the .csv file back
\* the fields of a line: the texts between its commas
RECURSIVE Fields(_)
Fields(line) ==
    IF \A k \in DOMAIN line : line[k] # "," THEN <<line>>
    ELSE LET c == CHOOSE k \in DOMAIN line : line[k] = "," /\ \A m \in 1..(k - 1) : line[m] # ","
         IN <<SubSeq(line, 1, c - 1)>> \o Fields(SubSeq(line, c + 1, Len(line)))
\* a reader of the two columns scope, name: the first line is the header
ParseCsv(lines) ==
    { <<Fields(lines[n])[1], Fields(lines[n])[2]>> : n \in 2..Len(lines) }
Pairs(reg) == UNION { {sc} \X Range(reg[sc]) : sc \in DOMAIN reg }

\* C17: the .csv file read back gives exactly the set of (scope, name) pairs
\* of the registry it was written from.
C17_RoundTrip == csv_file # <<>> => ParseCsv(csv_file) = Pairs(unique_files)

\* C19: while a thread sleeps inside acquire(), self.lock is not held, so
\* another thread can enter acquire() during the sleep.
C19_LockFreeWhileSleeping == \A t \in Sleeping : lock # t

\* C20: a file that an answered batch leaves out is not counted as checked or
\* unique, is not put in the registry and adds nothing to errors or skipped,
\* while the batch's other files are counted and classified as their records
\* say.
Omitting(b) == Answered(b) /\ b.omitted # {}
C20_OmittedFileIgnored ==
    \A d \in Tasks :
        /\ \A b \in DOMAIN batches[d] : Omitting(batches[d][b]) =>
              /\ batches[d][b].omitted \cap Range(inserted[d]) = {}
              /\ batches[d][b].checked <= Returned(batches[d][b])
              /\ batches[d][b].unique <= UniqueReturned(batches[d][b])
              /\ (b < Len(batches[d]) \/ pc[d] = "done") =>
                    /\ batches[d][b].checked = Returned(batches[d][b])
                    /\ batches[d][b].unique = UniqueReturned(batches[d][b])
        /\ (pc[d] = "done" /\ \E b \in DOMAIN batches[d] : Omitting(batches[d][b])) =>
              /\ contrib[d]["files_checked"] = CheckedOf(batches[d])
              /\ contrib[d]["unique_files_found"] = UniqueOf(batches[d])
              /\ contrib[d]["errors"] = ErrorsOf(batches[d])
              /\ contrib[d]["skipped"] = 0
              /\ Len(inserted[d]) = UniqueOf(batches[d])
\* a full batch was answered without its first file, which alone would have
\* been unique at the endpoint with file 2: the other 99 files were checked
\* and file 2 was found unique
C20_Witness ==
    \E d \in Tasks :
        /\ pc[d] = "done"
        /\ batches[d] # <<>>
        /\ Omitting(batches[d][1])
        /\ is_unique_at_rse(rse, CatalogRecord(1)) /\ 1 \in batches[d][1].omitted
        /\ batches[d][1].checked = batch_size - 1
        /\ batches[d][1].unique = 1
        /\ Range(inserted[d]) \cap batches[d][1].dids = {2}
        /\ ErrorsOf(batches[d]) = 0 /\ contrib[d]["errors"] = 0

\* ---- the accounting of datasets
\* every dataset listed was submitted and its task has ended
AllTasksEnded ==
    /\ datasets > 0
    /\ \A d \in Submitted : Finished(d)
FailedTasks == {d \in Submitted : pc[d] = "failed"}

\* C21: once every submitted task has ended, datasets_processed + skipped +
\* the number of tasks that ended with an exception equals datasets_found,
\* and at no time does datasets_processed + skipped exceed datasets_found.
C21_DatasetsAccounted ==
    /\ AllTasksEnded =>
          stats["datasets_processed"] + stats["skipped"] + Cardinality(FailedTasks)
             = stats["datasets_found"]
    /\ stats["datasets_processed"] + stats["skipped"] <= stats["datasets_found"]

\* ---- termination and the locks
\* no thread holds stats_lock and unique_files_lock together, or waits for
\* one of them while it holds the other
NoLockHeldWhileWaiting ==
    \A t \in Threads :
        /\ ~(stats_lock = t /\ unique_files_lock = t)
        /\ pc[t] = "update_stats" => unique_files_lock # t
        /\ pc[t] = "evaluate" => stats_lock # t

\* C22: a run over any finite set of datasets reaches the report save: when
\* run() has returned, save_results has been called on the normal path; and
\* no thread waits for one lock while holding another.
C22_RunReachesSave ==
    /\ pc[MainThread] = "returned" =>
          \E r \in DOMAIN reports : reports[r].path = "normal"
    /\ NoLockHeldWhileWaiting
====
